---- MODULE Spec2Model ----
(***************************************************************************)
(* ResettableSession (app/services/reverse/utils/session.py): an           *)
(* AsyncSession wrapper that replaces the underlying session after a       *)
(* response with one of the configured status codes, or on reset().        *)
(*                                                                         *)
(* Tasks are asyncio tasks on one event loop: a step of the model is the   *)
(* code a task runs between two suspension points.  The suspension points  *)
(* are the wait for the lock (l.54), the close of the old session (l.61),  *)
(* the delegated request (l.68) and the close of close() (l.87).           *)
(* The transport (curl_cffi AsyncSession) is a counting stub: sessions are *)
(* numbered in the order of their construction, a request returns any      *)
(* status of Statuses or raises, a close returns or raises.                *)
(***************************************************************************)
EXTENDS Integers, Sequences, FiniteSets, TLC

\* ---------------------------------------------------------------- bounds
NumTasks == 3
MaxCalls == 4

Tasks == 1 .. NumTasks
\* every call constructs at most one session, the constructor builds one
Sessions == 1 .. (MaxCalls + 1)
\* self._session = None (l.89)
None == 0
\* the status codes the stub transport answers with
Statuses == {200, 403, 429}
\* l.33: the code used when neither the argument nor the configuration names any
DEFAULT_RESET_STATUS == 403

\* ------------------------------------------------- values of the model
\* Python values of reset_on_status / get_config(...): None, an int, an iterable
PyNone == [tag |-> "None", val |-> << >>]
PyInt(n) == [tag |-> "int", val |-> <<n>>]
PyList(s) == [tag |-> "list", val |-> s]

\* the constructions tried: <<reset_on_status argument, configured value>>
CtorInputs ==
    { <<PyNone, PyNone>>,
      <<PyNone, PyList(<<429, 503>>)>>,
      <<PyNone, PyList(<< >>)>>,
      <<PyInt(403), PyList(<<429, 503>>)>>,
      <<PyList(<< >>), PyList(<<429, 503>>)>>,
      <<PyList(<<403, 429>>), PyNone>> }

\* what a call or an awaited transport operation gave
NoResult == [kind |-> "none", status |-> 0]
Returned == [kind |-> "return", status |-> 0]
Response(c) == [kind |-> "response", status |-> c]
Raised(e) == [kind |-> e, status |-> 0]
NoReturn == [call |-> "none", value |-> NoResult]
IsRaise(o) == o.kind \in {"TransportError", "CloseError", "AttributeError"}

RequestOutcomes == {Response(c) : c \in Statuses} \cup {Raised("TransportError")}
CloseOutcomes == {Returned, Raised("CloseError")}

VARIABLES
    \* constructor inputs
    arg_reset_on_status,    \* the reset_on_status keyword argument
    config_codes,           \* get_config("retry.reset_session_status_codes")
    \* fields of ResettableSession
    reset_on_status,        \* self._reset_on_status
    reset_requested,        \* self._reset_requested
    locked,                 \* self._reset_lock: held
    waiters,                \* self._reset_lock: tasks queued on it, FIFO
    session,                \* self._session: a session number, or None
    \* the transport
    constructed,            \* number of AsyncSession(...) constructions
    close_calls,            \* per session, number of close() invocations
    \* the tasks
    pc,                     \* where each task is suspended
    call,                   \* the method of the guard the task is running
    target,                 \* the session whose request or close the task awaits
                            \* (old_session of l.58, self._session as l.68, l.87 read it)
    \* what the tasks' callers and the transport last saw
    delivered,              \* what the transport operation awaited gave, if the
                            \* latest step resumed from one
    returned,               \* the call that ended in the latest step, if any,
                            \* and what its caller got
    \* observation
    calls,                  \* number of calls made on the guard
    arms,                   \* number of times reset_requested went False -> True
    poisoned,               \* sessions that returned a status of reset_on_status
    poison_mark,            \* constructed, at the latest such response
    retired,                \* sessions that were live when a finished reset() was called
    reset_called,           \* reset() has been called
    close_called,           \* close() has been called
    any_response,           \* some request returned a response
    late_call,              \* a get/post/reset call began after close() was called
    live_at_call,           \* per task: session when its call started
    seen_poisoned,          \* per task: poisoned when its call started
    seen_mark,              \* per task: poison_mark when its call started
    seen_retired            \* per task: retired when its call started

guard_vars == <<reset_on_status, reset_requested, locked, waiters, session>>
ctor_vars == <<arg_reset_on_status, config_codes>>
transport_vars == <<constructed, close_calls>>
task_vars == <<pc, call, target>>
io_vars == <<delivered, returned>>
global_obs == <<calls, arms, poisoned, poison_mark, retired, reset_called,
                close_called, any_response, late_call>>
task_obs == <<live_at_call, seen_poisoned, seen_mark, seen_retired>>
vars == <<ctor_vars, guard_vars, transport_vars, task_vars, io_vars,
          global_obs, task_obs>>

\* ------------------------------------------------------- the constructor
Truthy(v) == IF v.tag = "int" THEN v.val[1] # 0 ELSE Len(v.val) > 0

ResolveCodes_ConfigFirst(explicit, configured) ==
    LET chosen == IF configured.tag # "None"
                  THEN configured
                  ELSE IF explicit.tag # "None"
                       THEN explicit
                       ELSE PyList(<<DEFAULT_RESET_STATUS>>)
        listed == IF chosen.tag = "int" THEN PyList(chosen.val) ELSE chosen
    IN  IF Truthy(listed)
        THEN {listed.val[i] : i \in DOMAIN listed.val}
        ELSE {}

\* l.31-38
ResolveCodes(explicit, configured) ==
    LET chosen == IF explicit.tag = "None"
                  THEN IF configured.tag # "None"
                       THEN configured
                       ELSE PyList(<<DEFAULT_RESET_STATUS>>)
                  ELSE explicit
        listed == IF chosen.tag = "int" THEN PyList(chosen.val) ELSE chosen
    IN  IF Truthy(listed)
        THEN {listed.val[i] : i \in DOMAIN listed.val}
        ELSE {}

Init ==
    /\ \E in \in CtorInputs :
          /\ arg_reset_on_status = in[1]
          /\ config_codes = in[2]
    /\ reset_on_status = ResolveCodes(arg_reset_on_status, config_codes)
    /\ reset_requested = FALSE
    /\ locked = FALSE
    /\ waiters = << >>
    /\ constructed = 1
    /\ session = 1
    /\ close_calls = [s \in Sessions |-> 0]
    /\ pc = [t \in Tasks |-> "idle"]
    /\ call = [t \in Tasks |-> "none"]
    /\ target = [t \in Tasks |-> None]
    /\ delivered = NoResult
    /\ returned = NoReturn
    /\ calls = 0
    /\ arms = 0
    /\ poisoned = {}
    /\ poison_mark = 0
    /\ retired = {}
    /\ reset_called = FALSE
    /\ close_called = FALSE
    /\ any_response = FALSE
    /\ late_call = FALSE
    /\ live_at_call = [t \in Tasks |-> None]
    /\ seen_poisoned = [t \in Tasks |-> {}]
    /\ seen_mark = [t \in Tasks |-> 0]
    /\ seen_retired = [t \in Tasks |-> {}]


\* ------------------------------------------------------------- helpers
\* what the task records when its call starts
Observe(t) ==
    /\ live_at_call' = [live_at_call EXCEPT ![t] = session]
    /\ seen_poisoned' = [seen_poisoned EXCEPT ![t] = poisoned]
    /\ seen_mark' = [seen_mark EXCEPT ![t] = poison_mark]
    /\ seen_retired' = [seen_retired EXCEPT ![t] = retired]

\* the call `kind` of task t ends and its caller gets r;
\* starting: in the very step that began the call
TaskEnds(t, kind, starting, r) ==
    /\ pc' = [pc EXCEPT ![t] = "idle"]
    /\ call' = [call EXCEPT ![t] = "none"]
    /\ target' = [target EXCEPT ![t] = None]
    /\ returned' = [call |-> kind, value |-> r]
    /\ live_at_call' = [live_at_call EXCEPT ![t] = None]
    /\ seen_poisoned' = [seen_poisoned EXCEPT ![t] = {}]
    /\ seen_mark' = [seen_mark EXCEPT ![t] = 0]
    /\ seen_retired' = [seen_retired EXCEPT ![t] = {}]
    /\ retired' = IF ~starting /\ kind = "reset" /\ ~IsRaise(r)
                  THEN retired \cup ({live_at_call[t]} \ {None})
                  ELSE retired

\* the call `kind` of task t suspends at `where`, awaiting an operation of session s
TaskWaits(t, kind, starting, where, s) ==
    /\ pc' = [pc EXCEPT ![t] = where]
    /\ call' = [call EXCEPT ![t] = kind]
    /\ target' = [target EXCEPT ![t] = s]
    /\ returned' = NoReturn
    /\ retired' = retired
    /\ IF starting THEN Observe(t) ELSE UNCHANGED task_obs

\* l.68 once _maybe_reset has returned (a request), l.81 returning (reset):
\* sess is self._session as the task reads it
Proceed(t, kind, starting, sess) ==
    IF kind = "reset"
    THEN TaskEnds(t, kind, starting, Returned)
    ELSE IF sess = None
         THEN \* getattr(None, method)
              TaskEnds(t, kind, starting, Raised("AttributeError"))
         ELSE TaskWaits(t, kind, starting, "inflight", sess)

Swallowed_Nothing(o) == FALSE

\* l.62: `except Exception: pass` catches whatever old_session.close() raised
Swallowed(o) == TRUE

Recheck_Skipped(flag) == TRUE

\* l.55: the re-check under the lock
Recheck(flag) == flag

SessionRead_BeforeReset(t) ==
    IF pc[t] \in {"wait", "closing_old"} THEN live_at_call[t] ELSE session

\* l.68: self._session is read once _maybe_reset has returned
SessionRead(t) == session

Released_OnlyOnSuccess(o) == ~IsRaise(o)

\* l.54: `async with` releases the lock however its body is left
Released(o) == TRUE

OldSession_AfterSwap == constructed + 1

\* l.58: old_session is self._session as it was before the swap
OldSession == session

\* l.57-63, entered with the lock held: swap, then start closing the old session
Reconstruct(t, kind, starting) ==
    /\ reset_requested' = FALSE
    /\ constructed' = constructed + 1
    /\ session' = constructed + 1
    /\ IF OldSession = None
       THEN \* None.close() raises AttributeError before anything is awaited
            /\ close_calls' = close_calls
            /\ delivered' = Raised("AttributeError")
            /\ locked' = FALSE
            /\ IF Swallowed(Raised("AttributeError"))
               THEN Proceed(t, kind, starting, constructed + 1)
               ELSE TaskEnds(t, kind, starting, Raised("AttributeError"))
       ELSE /\ close_calls' = [close_calls EXCEPT ![OldSession] = @ + 1]
            /\ delivered' = NoResult
            /\ locked' = TRUE
            /\ TaskWaits(t, kind, starting, "closing_old", OldSession)

Pending_Always(flag) == TRUE

\* l.52: the unlocked read of the flag, the lock is only taken when it is up
Pending(flag) == flag

LockBusy_Never == FALSE

\* l.54: asyncio.Lock.acquire suspends when the lock is held or promised
\* to an earlier waiter
LockBusy == locked \/ waiters # << >>

\* l.52-56: _maybe_reset up to its first suspension, in the step that starts
\* the call; flag is self._reset_requested as l.52 reads it
MaybeReset(t, kind, flag) ==
    IF ~Pending(flag)
    THEN \* l.53
         /\ Proceed(t, kind, TRUE, SessionRead(t))
         /\ delivered' = NoResult
         /\ reset_requested' = flag
         /\ UNCHANGED <<locked, waiters, session, constructed, close_calls>>
    ELSE IF LockBusy
         THEN \* l.54: queue on the lock
              /\ waiters' = Append(waiters, t)
              /\ TaskWaits(t, kind, TRUE, "wait", None)
              /\ reset_requested' = flag
              /\ delivered' = NoResult
              /\ UNCHANGED <<locked, session, constructed, close_calls>>
         ELSE \* l.54 acquires at once
              /\ waiters' = waiters
              /\ IF Recheck(flag)
                 THEN Reconstruct(t, kind, TRUE)
                 ELSE \* l.56, the lock is released on the way out
                      /\ Proceed(t, kind, TRUE, SessionRead(t))
                      /\ delivered' = NoResult
                      /\ reset_requested' = flag
                      /\ UNCHANGED <<locked, session, constructed,
                                     close_calls>>

\* a call starts: tasks are interchangeable, it runs on the first free one
Begin(t) ==
    /\ pc[t] = "idle"
    /\ \A u \in Tasks : u < t => pc[u] # "idle"
    /\ calls < MaxCalls
    /\ calls' = calls + 1

ShouldReset_Never(status) == FALSE

ShouldReset_EmptyMeansDefault(status) ==
    status \in (IF reset_on_status = {} THEN {DEFAULT_RESET_STATUS}
                ELSE reset_on_status)

\* l.69: the status check
ShouldReset(status) == reset_on_status # {} /\ status \in reset_on_status

Arms_AlsoOnError(o) == IsRaise(o) \/ ShouldReset(o.status)

\* l.68-69: only a response that l.68 returned reaches the status check
Arms(o) == ~IsRaise(o) /\ ShouldReset(o.status)

RequestedByReset_Missing == FALSE

\* l.80
RequestedByReset == TRUE

\* ------------------------------------------------------------- actions
\* get()/post(): l.73-77, l.66-68 up to the first suspension
CallRequest(t) ==
    /\ Begin(t)
    /\ MaybeReset(t, "request", reset_requested)
    /\ late_call' = (late_call \/ close_called)
    /\ UNCHANGED <<ctor_vars, reset_on_status, arms, poisoned, poison_mark,
                   reset_called, close_called, any_response>>

\* reset(): l.79-81 up to the first suspension
CallReset(t) ==
    /\ Begin(t)
    /\ reset_called' = TRUE
    /\ LET flag == (RequestedByReset \/ reset_requested)
       IN  /\ arms' = IF flag /\ ~reset_requested THEN arms + 1 ELSE arms
           /\ MaybeReset(t, "reset", flag)
    /\ late_call' = (late_call \/ close_called)
    /\ UNCHANGED <<ctor_vars, reset_on_status, poisoned, poison_mark,
                   close_called, any_response>>

\* l.54: the lock is handed to the first waiter, which goes on from l.55
LockAcquired(t) ==
    /\ pc[t] = "wait"
    /\ ~locked
    /\ waiters # << >> /\ Head(waiters) = t
    /\ waiters' = Tail(waiters)
    /\ IF Recheck(reset_requested)
       THEN Reconstruct(t, call[t], FALSE)
       ELSE \* l.56, the lock is released on the way out
            /\ Proceed(t, call[t], FALSE, SessionRead(t))
            /\ delivered' = NoResult
            /\ UNCHANGED <<reset_requested, locked, session, constructed,
                           close_calls>>
    /\ UNCHANGED <<ctor_vars, reset_on_status, calls, arms, poisoned,
                   poison_mark, reset_called, close_called, any_response,
                   late_call>>

AfterCall_Eager(t, o) ==
    /\ reset_requested' = reset_requested
    /\ locked' = locked
    /\ IF Arms(o)
       THEN /\ constructed' = constructed + 1
            /\ session' = constructed + 1
            /\ close_calls' = IF session = None THEN close_calls
                              ELSE [close_calls EXCEPT ![session] = @ + 1]
       ELSE UNCHANGED <<session, constructed, close_calls>>

AfterCall_Assigns(t, o) ==
    /\ reset_requested' = Arms(o)
    /\ UNCHANGED <<session, constructed, close_calls, locked>>

\* l.68-71 after the delegated call: nothing but the flag is touched
AfterCall(t, o) ==
    /\ reset_requested' = (reset_requested \/ Arms(o))
    /\ UNCHANGED <<session, constructed, close_calls, locked>>

\* l.68 resumes: the delegated call returned a response or raised
RequestDone(t, o) ==
    /\ pc[t] = "inflight"
    /\ delivered' = o
    /\ AfterCall(t, o)
    /\ arms' = IF reset_requested' /\ ~reset_requested THEN arms + 1 ELSE arms
    /\ IF IsRaise(o)
       THEN \* the exception leaves _request at l.68
            UNCHANGED <<poisoned, poison_mark, any_response>>
       ELSE /\ any_response' = TRUE
            /\ poisoned' = IF o.status \in reset_on_status
                           THEN poisoned \cup {target[t]} ELSE poisoned
            /\ poison_mark' = IF o.status \in reset_on_status
                              THEN constructed ELSE poison_mark
    /\ TaskEnds(t, "request", FALSE, o)
    /\ UNCHANGED <<ctor_vars, reset_on_status, waiters, calls,
                   reset_called, close_called, late_call>>

\* l.61 resumes: the close of the old session returned or raised; l.62-64,
\* the lock is released on the way out and the caller goes on
OldSessionClosed(t, o) ==
    /\ pc[t] = "closing_old"
    /\ delivered' = o
    /\ locked' = ~Released(o)
    /\ IF IsRaise(o) /\ ~Swallowed(o)
       THEN TaskEnds(t, call[t], FALSE, o)
       ELSE Proceed(t, call[t], FALSE, SessionRead(t))
    /\ UNCHANGED <<ctor_vars, reset_on_status, reset_requested, waiters,
                   session, transport_vars, calls, arms, poisoned,
                   poison_mark, reset_called, close_called, any_response,
                   late_call>>

Finally_OnlyOnSuccess(o) ==
    IF IsRaise(o)
    THEN UNCHANGED <<session, reset_requested>>
    ELSE session' = None /\ reset_requested' = FALSE

\* l.88-90: the finally clause of close()
Finally(o) ==
    /\ session' = None
    /\ reset_requested' = FALSE

\* l.83-87: close() up to its suspension, run for the call `kind`
Close(t, kind) ==
    /\ close_called' = TRUE
    /\ IF session = None
       THEN \* l.85
            /\ TaskEnds(t, kind, TRUE, Returned)
            /\ close_calls' = close_calls
       ELSE /\ TaskWaits(t, kind, TRUE, "closing", session)
            /\ close_calls' = [close_calls EXCEPT ![session] = @ + 1]
    /\ delivered' = NoResult
    /\ UNCHANGED <<ctor_vars, guard_vars, constructed, arms, poisoned,
                   poison_mark, reset_called, any_response, late_call>>

\* close()
CallClose(t) ==
    /\ Begin(t)
    /\ Close(t, "close")

ExitCloses_UnlessException(exc) == ~exc

\* l.95-96: __aexit__ awaits close() whatever exc_type is
ExitCloses(exc) == TRUE

\* __aexit__: the `async with` block is left, exc: through an exception
Exit(t, exc) ==
    /\ Begin(t)
    /\ IF ExitCloses(exc)
       THEN Close(t, "exit")
       ELSE /\ TaskEnds(t, "exit", TRUE, Returned)
            /\ delivered' = NoResult
            /\ UNCHANGED <<ctor_vars, guard_vars, transport_vars, arms,
                           poisoned, poison_mark, reset_called, close_called,
                           any_response, late_call>>

\* l.87 resumes: the close returned or raised; l.88-90, then the exception if any
CloseDone(t, o) ==
    /\ pc[t] = "closing"
    /\ delivered' = o
    /\ Finally(o)
    /\ TaskEnds(t, call[t], FALSE, o)
    /\ UNCHANGED <<ctor_vars, reset_on_status, locked, waiters, transport_vars,
                   calls, arms, poisoned, poison_mark, reset_called,
                   close_called, any_response, late_call>>

Next ==
    \/ \E t \in Tasks : CallRequest(t)
    \/ \E t \in Tasks : CallReset(t)
    \/ \E t \in Tasks : CallClose(t)
    \/ \E t \in Tasks : LockAcquired(t)
    \/ \E t \in Tasks : \E o \in CloseOutcomes : OldSessionClosed(t, o)
    \/ \E t \in Tasks : \E o \in RequestOutcomes : RequestDone(t, o)
    \/ \E t \in Tasks : \E o \in CloseOutcomes : CloseDone(t, o)

Spec == Init /\ [][Next]_vars

\* the guard of `async with ResettableSession() as s:`, built with the
\* defaults; the block makes any of the calls and is left through __aexit__
ContextInit ==
    /\ Init
    /\ arg_reset_on_status = PyNone
    /\ config_codes = PyNone

ContextNext ==
    \/ Next
    \/ \E t \in Tasks : \E exc \in BOOLEAN : Exit(t, exc)

ContextSpec == ContextInit /\ [][ContextNext]_vars

\* What a reconstruction waits for: the close of the session it replaced
\* ends (it returns or raises), and the lock, once free, resumes its first
\* waiter. At most one of the two is possible in a state. Nothing is
\* assumed of the delegated requests or of the close that close() awaits.
Fairness ==
    WF_vars(\E t \in Tasks :
              \/ LockAcquired(t)
              \/ \E o \in CloseOutcomes : OldSessionClosed(t, o))

FairSpec == ContextInit /\ [][Next]_vars /\ Fairness

\* ---------------------------------------------------------- properties
\* the guard is open: close() has never been called on it
Open == ~close_called

\* the step ends the call `kind` that task t was suspended in
Ends(t, kind) == pc[t] # "idle" /\ call[t] = kind /\ pc'[t] = "idle"

\* the step begins a call `kind` that ends in it, without suspending
EndsAtOnce(kind) == calls' = calls + 1 /\ returned'.call = kind

\* the step resumes the request of task t with outcome kind k of the transport
RequestResumes(t) == pc[t] = "inflight" /\ pc'[t] = "idle"

\* C1: on an open guard, a request that starts after session S returned a
\* status of the reset set is delegated to another session than S, and a
\* session has been constructed since that response; a reset() that starts
\* after it returns with another session than S live.
C1_LaterRequestsLeavePoisoned ==
    Open =>
      \A t \in Tasks :
        pc[t] = "inflight" =>
          /\ target[t] \notin seen_poisoned[t]
          /\ seen_mark[t] > 0 => constructed > seen_mark[t]

C1_LaterResetsLeavePoisoned ==
    /\ \A t \in Tasks :
         (Ends(t, "reset") /\ Open') => session' \notin seen_poisoned[t]
    /\ (EndsAtOnce("reset") /\ Open') => session' \notin poisoned

C1_PoisonedSessionReplaced ==
    /\ []C1_LaterRequestsLeavePoisoned
    /\ [][C1_LaterResetsLeavePoisoned]_vars

\* reset set {403}: session 1 answered 403, the next request runs on session 2
C1_Witness ==
    /\ Open
    /\ reset_on_status = {403}
    /\ \E t \in Tasks :
         /\ pc[t] = "inflight"
         /\ seen_poisoned[t] = {1}
         /\ target[t] = 2
    /\ constructed = 2

\* C2: a response whose status is not in the reset set leaves the flag and
\* the number of sessions constructed as they were; with an empty reset set
\* and no reset() call the flag is never set, no session is constructed and
\* every delegated request runs on the session the constructor built.
C2_OtherStatusChangesNothing ==
    \A t \in Tasks :
      ( /\ RequestResumes(t)
        /\ delivered'.kind = "response"
        /\ delivered'.status \notin reset_on_status )
      => /\ reset_requested' = reset_requested
         /\ constructed' = constructed
         /\ session' = session

C2_EmptySetDisables ==
    (reset_on_status = {} /\ ~reset_called) =>
      /\ ~reset_requested
      /\ constructed = 1
      /\ session \in {1, None}
      /\ \A t \in Tasks : pc[t] = "inflight" => target[t] = 1

C2_OnlyResetStatusArms ==
    /\ []C2_EmptySetDisables
    /\ [][C2_OtherStatusChangesNothing]_vars

\* empty reset set: a request has just returned 403 and nothing is armed
C2_Witness ==
    /\ reset_on_status = {}
    /\ returned = [call |-> "request", value |-> Response(403)]
    /\ ~reset_requested
    /\ session = 1
    /\ \E t \in Tasks : pc[t] = "inflight" /\ target[t] = 1

\* C3: on an open guard every time the flag went up accounts for exactly one
\* construction and one close of the session replaced, however many tasks
\* saw the flag up; a task that gets the lock and finds the flag down
\* constructs and closes nothing.
C3_OnePerEpisode ==
    Open =>
      /\ constructed = 1 + arms - (IF reset_requested THEN 1 ELSE 0)
      /\ \A s \in Sessions :
           close_calls[s] = (IF s < constructed THEN 1 ELSE 0)

C3_RecheckFalseDoesNothing ==
    \A t \in Tasks :
      (pc[t] = "wait" /\ pc'[t] # "wait" /\ ~reset_requested)
      => /\ constructed' = constructed
         /\ close_calls' = close_calls
         /\ session' = session

C3_ExactlyOneReconstruction ==
    /\ []C3_OnePerEpisode
    /\ [][C3_RecheckFalseDoesNothing]_vars

\* two tasks queued on the lock for one episode: the first has rebuilt the
\* session and released the lock, the second is about to find the flag down
C3_Witness ==
    /\ Open
    /\ ~locked /\ ~reset_requested
    /\ waiters # << >>
    /\ arms = 2 /\ constructed = 3
    /\ delivered.kind \in {"return", "CloseError"}

\* sessions that were live when some reset() call, running or finished, began
ResetWhileLive ==
    retired \cup {live_at_call[t] : t \in {u \in Tasks : call[u] = "reset"}}

\* C4: on an open guard a session is replaced only if it returned a status of
\* the reset set itself or reset() was called while it was live: responses
\* of an earlier session that come in late do not replace its successor.
C4_OnlyOwnPoisonReplaces ==
    [][ (Open' /\ constructed' = constructed + 1)
        => (session \in poisoned \/ session \in ResetWhileLive') ]_vars

\* C5: on an open guard, when reset() returns the live session is not the
\* one that was live when it was called, and no request that starts after
\* the return is delegated to that earlier session.
C5_ResetReturnsAfterReplacement ==
    /\ \A t \in Tasks :
         (Ends(t, "reset") /\ Open') =>
           /\ returned' = [call |-> "reset", value |-> Returned]
           /\ session' # live_at_call[t]
    /\ (EndsAtOnce("reset") /\ Open') => session' # session

C5_LaterRequestsLeaveRetired ==
    Open =>
      \A t \in Tasks :
        pc[t] = "inflight" => target[t] \notin seen_retired[t]

C5_ResetIsSynchronous ==
    /\ []C5_LaterRequestsLeaveRetired
    /\ [][C5_ResetReturnsAfterReplacement]_vars

\* a reset() that had to queue on the lock has returned, and a request
\* started after it is in flight on the session that replaced session 2
C5_Witness ==
    /\ Open
    /\ \E t \in Tasks :
         /\ pc[t] = "inflight"
         /\ 2 \in seen_retired[t]
         /\ target[t] = 3

\* C6: the request that gets a status of the reset set only sets the flag: it
\* constructs no session, closes none, leaves self._session as it is and
\* returns the response the delegated call gave; a session is only ever
\* replaced in a step where a call enters _maybe_reset or gets the lock.
C6_PoisonResponseOnlyArms ==
    \A t \in Tasks :
      ( /\ RequestResumes(t)
        /\ delivered'.kind = "response"
        /\ delivered'.status \in reset_on_status )
      => /\ reset_requested'
         /\ session' = session
         /\ constructed' = constructed
         /\ close_calls' = close_calls
         /\ returned' = [call |-> "request", value |-> delivered']

C6_ReplacedOnEntryOnly ==
    constructed' # constructed =>
      \/ calls' = calls + 1
      \/ \E t \in Tasks : pc[t] = "wait" /\ pc'[t] # "wait"

C6_ResetByStatusIsDeferred ==
    [][C6_PoisonResponseOnlyArms /\ C6_ReplacedOnEntryOnly]_vars

\* session 1 has just answered 403, the flag is up and session 1 is still live
C6_Witness ==
    /\ reset_on_status = {403}
    /\ returned = [call |-> "request", value |-> Response(403)]
    /\ reset_requested
    /\ session = 1 /\ constructed = 1
    /\ close_calls[1] = 0

\* C7: when a close() that awaited the session's close ends, the handle is
\* None and the flag is False whether that close returned or raised, and what
\* it raised reaches the caller; a close() that finds the handle None returns
\* at once and invokes no close, and only such a close() returns at once.
C7_StateClearedAfterClose ==
    (returned.call = "close" /\ delivered # NoResult) =>
      /\ session = None
      /\ ~reset_requested
      /\ returned.value = delivered

C7_SecondCloseIsNoOp ==
    /\ (returned'.call = "close" /\ delivered' = NoResult) =>
         /\ session = None
         /\ UNCHANGED <<session, reset_requested, transport_vars>>
         /\ returned'.value = Returned
    /\ \A t \in Tasks :
         (pc[t] # "closing" /\ pc'[t] = "closing") =>
           /\ session # None
           /\ close_calls'[session] = close_calls[session] + 1

C7_CloseClearsAndReleasesOnce ==
    /\ []C7_StateClearedAfterClose
    /\ [][C7_SecondCloseIsNoOp]_vars

\* the close of the live session has just raised out of close()
C7_Witness ==
    /\ returned = [call |-> "close", value |-> Raised("CloseError")]
    /\ session = None
    /\ ~reset_requested
    /\ close_calls[1] = 1

\* C8: a request whose delegated call raises hands the exception to its
\* caller and leaves the flag and self._session as they were; on an open
\* guard with no reset() call, as long as no request has returned a
\* response the live session is the one the constructor built.
C8_ErrorChangesNothing ==
    \A t \in Tasks :
      (RequestResumes(t) /\ delivered'.kind = "TransportError")
      => /\ returned' = [call |-> "request", value |-> delivered']
         /\ reset_requested' = reset_requested
         /\ session' = session
         /\ constructed' = constructed

C8_ErrorsAloneKeepSession ==
    (Open /\ ~reset_called /\ ~any_response) =>
      /\ session = 1
      /\ constructed = 1
      /\ ~reset_requested

C8_TransportErrorNeverArms ==
    /\ []C8_ErrorsAloneKeepSession
    /\ [][C8_ErrorChangesNothing]_vars

\* every call so far was a request that raised, the last one just now
C8_Witness ==
    /\ Open /\ ~reset_called /\ ~any_response
    /\ reset_on_status # {}
    /\ calls = 3
    /\ \A t \in Tasks : pc[t] = "idle"
    /\ returned = [call |-> "request", value |-> Raised("TransportError")]
    /\ session = 1

\* C9: on an open guard, when the close of the replaced session raises, the
\* call that replaced it goes on as if it had returned: the lock is released,
\* the new session stays live, a request is delegated to it and a reset()
\* returns normally; the flag went down when the session was replaced.
C9_OldCloseFailureSwallowed ==
    \A t \in Tasks :
      ( /\ pc[t] = "closing_old" /\ pc'[t] # "closing_old"
        /\ IsRaise(delivered')
        /\ Open' )
      => /\ ~locked'
         /\ session' = session
         /\ session' # target[t]
         /\ reset_requested' = reset_requested
         /\ call[t] = "request" =>
              /\ pc'[t] = "inflight"
              /\ target'[t] = session'
              /\ returned' = NoReturn
         /\ call[t] = "reset" =>
              /\ pc'[t] = "idle"
              /\ returned' = [call |-> "reset", value |-> Returned]

C9_FlagDownAtSwap ==
    constructed' # constructed => (~reset_requested' /\ session' = constructed')

C9_OldCloseFailureNeverSurfaces ==
    [][C9_OldCloseFailureSwallowed /\ C9_FlagDownAtSwap]_vars

\* the close of session 1 has just raised and the request that replaced it
\* is in flight on session 2
C9_Witness ==
    /\ Open
    /\ delivered = Raised("CloseError")
    /\ returned = NoReturn
    /\ ~locked
    /\ session = 2
    /\ \E t \in Tasks : pc[t] = "inflight" /\ target[t] = 2

\* the elements of a Python int or iterable
Codes(v) == {v.val[i] : i \in DOMAIN v.val}

\* C10: the reset set is that of the explicit argument when one is given
\* (an int, or an iterable, empty or not), else that of the configured
\* value when there is one, else {403}, and it stays so in every state.
C10_ResetSetByPrecedence ==
    reset_on_status =
      IF arg_reset_on_status # PyNone THEN Codes(arg_reset_on_status)
      ELSE IF config_codes # PyNone THEN Codes(config_codes)
      ELSE {403}

\* configured [429, 503], no argument: a 403 response has just armed nothing
C10_Witness ==
    /\ arg_reset_on_status = PyNone
    /\ config_codes = PyList(<<429, 503>>)
    /\ reset_on_status = {429, 503}
    /\ returned = [call |-> "request", value |-> Response(403)]
    /\ ~reset_requested /\ arms = 0

\* the step begins __aexit__
ExitBegins ==
    /\ calls' = calls + 1
    /\ \/ returned'.call = "exit"
       \/ \E t \in Tasks : pc[t] = "idle" /\ call'[t] = "exit"

\* C11 as stated: whenever __aexit__ has just returned or raised, the handle
\* is None and the flag is False.
C11_ExitLeavesGuardCleared ==
    returned.call = "exit" => (session = None /\ ~reset_requested)

\* C11: leaving the block, normally or through an exception, runs close():
\* with a session live its close is invoked and awaited, with the handle
\* None already __aexit__ returns at once and changes nothing. When
\* __aexit__ ends the handle is None; the flag is False when it awaited a
\* close, and what that close raised reaches the caller.
C11_ExitRunsClose ==
    ExitBegins =>
      IF session = None
      THEN /\ returned' = [call |-> "exit", value |-> Returned]
           /\ UNCHANGED <<session, reset_requested, transport_vars>>
      ELSE /\ close_calls'[session] = close_calls[session] + 1
           /\ \E t \in Tasks : pc'[t] = "closing" /\ target'[t] = session
           /\ returned' = NoReturn

C11_ClearedWhenExitEnds ==
    returned.call = "exit" =>
      /\ session = None
      /\ delivered # NoResult =>
           (~reset_requested /\ returned.value = delivered)

C11_ExitAlwaysCloses ==
    /\ []C11_ClearedWhenExitEnds
    /\ [][C11_ExitRunsClose]_vars

\* the block armed a reset, had session 1 replaced and armed one again;
\* __aexit__ has just ended with the close of session 2 raising
C11_Witness ==
    /\ returned = [call |-> "exit", value |-> Raised("CloseError")]
    /\ arms = 2 /\ constructed = 2
    /\ close_calls[2] = 1
    /\ session = None /\ ~reset_requested

\* the tasks that have cleared the flag (l.57) and have not yet got the
\* close of the session they replaced back (l.61)
Reconstructing == {t \in Tasks : pc[t] = "closing_old"}

\* C12: at most one task is between clearing the flag and the end of the
\* close of the session it replaced, that task holds the lock, and every
\* other task that found the flag up is queued on the lock.
C12_ReconstructionIsExclusive ==
    /\ Cardinality(Reconstructing) <= 1
    /\ Reconstructing # {} => locked
    /\ \A t \in Tasks : pc[t] = "wait" =>
         \E i \in DOMAIN waiters : waiters[i] = t

\* one task is closing the session it replaced, two more that saw a flag up
\* are queued on the lock behind it
C12_Witness ==
    /\ Cardinality(Reconstructing) = 1
    /\ Len(waiters) = 2
    /\ locked

\* the step hands the request of task t to the transport (l.68)
Delegates(t) == pc[t] # "inflight" /\ pc'[t] = "inflight"

\* C13: the session a request is delegated to is the one self._session
\* holds at that moment and the last one constructed, so none that a
\* reconstruction has replaced; no task is awaiting the close of it as a
\* replaced session, and on an open guard no close of it has been invoked.
C13_DelegatesToLive ==
    \A t \in Tasks :
      Delegates(t) =>
        /\ call'[t] = "request"
        /\ target'[t] = session'
        /\ target'[t] = constructed'
        /\ \A u \in Tasks : pc'[u] = "closing_old" => target'[u] # target'[t]
        /\ Open' => close_calls'[target'[t]] = 0

C13_NeverDelegatesToReplaced == [][C13_DelegatesToLive]_vars

\* a request that began with session 2 live went past the lock and is in
\* flight on session 2 while the task that replaced session 1 still holds
\* the lock and awaits the close of session 1
C13_Witness ==
    /\ Open
    /\ constructed = 2 /\ session = 2
    /\ locked
    /\ \E t, u \in Tasks :
         /\ pc[u] = "closing_old" /\ target[u] = 1
         /\ pc[t] = "inflight" /\ target[t] = 2 /\ live_at_call[t] = 2

FlagGoesUp == ~reset_requested /\ reset_requested'

FlagGoesDown == reset_requested /\ ~reset_requested'

\* the step takes the free lock and replaces the session under it (l.54-59):
\* the lock is still held after it, or was let go in it once None.close()
\* had failed
ReplacesUnderLock ==
    /\ ~locked
    /\ locked' \/ session = None
    /\ constructed' = constructed + 1
    /\ session' = constructed'
    /\ session' # session

\* the step runs the finally clause of a close() (l.88-90)
CloseFinishes ==
    /\ \E t \in Tasks : pc[t] = "closing" /\ pc'[t] = "idle"
    /\ session' = None
    /\ UNCHANGED <<locked, waiters, constructed>>

C14_UpOnlyWhenArmed ==
    FlagGoesUp =>
      \/ \E t \in Tasks :
           /\ RequestResumes(t)
           /\ delivered'.kind = "response"
           /\ delivered'.status \in reset_on_status
      \/ \E t \in Tasks : pc[t] = "idle" /\ call'[t] = "reset"

\* C14 as stated: over every operation, close() included, the flag goes up
\* only when a request gets a status of the reset set or reset() is called,
\* and goes down only in a step that replaces the session under the lock.
C14_FlagDownOnlyUnderLock ==
    [][C14_UpOnlyWhenArmed /\ (FlagGoesDown => ReplacesUnderLock)]_vars

\* C14: the flag goes up only when a request gets a status of the reset set
\* or reset() is called; it goes down only in a step that replaces the
\* session under the lock, or in the finally clause of close(), which sets
\* the handle to None and touches neither the lock nor the sessions.
C14_FlagTransitions ==
    [][ /\ C14_UpOnlyWhenArmed
        /\ FlagGoesDown => (ReplacesUnderLock \/ CloseFinishes) ]_vars

\* the flag went up once, no session was constructed for it, and a close()
\* has just ended: its finally clause took the flag down
C14_Witness ==
    /\ returned.call = "close"
    /\ delivered # NoResult
    /\ arms = 1 /\ constructed = 1
    /\ ~reset_requested
    /\ session = None

\* the sessions constructed whose close has not completed: no close of them
\* was invoked, or a task is still awaiting one
Unclosed ==
    {s \in 1 .. constructed :
       \/ close_calls[s] = 0
       \/ \E t \in Tasks : pc[t] \in {"closing_old", "closing"} /\ target[t] = s}

\* the step points self._session at a session just constructed (l.59)
Swaps == session' # session /\ session' # None

\* C15 as stated: when the handle is pointed at a new session the close of
\* the session it replaces has completed, and at no time are two sessions
\* constructed and not yet closed.
C15_ClosedBeforeReplaced ==
    /\ [](Cardinality(Unclosed) <= 1)
    /\ [][(Swaps /\ session # None) => session \notin Unclosed]_vars

C15_OneHandle ==
    Open =>
      /\ session = constructed
      /\ session \in Unclosed
      /\ Unclosed \subseteq {session} \cup {target[t] : t \in Reconstructing}
      /\ Cardinality(Unclosed) <= 2

C15_SwapThenClose ==
    (Swaps /\ session # None /\ Open') =>
      /\ close_calls[session] = 0
      /\ close_calls'[session] = 1
      /\ \E t \in Tasks : pc'[t] = "closing_old" /\ target'[t] = session
      /\ Unclosed' = {session, session'}

\* C15: on an open guard self._session is always the last session
\* constructed. A reconstruction points the handle at the new session first
\* and closes the old one after: no close of the old session was invoked
\* before the swap, and while the reconstructing task awaits that close two
\* sessions are constructed and not yet closed, the live one and the one
\* replaced, never more.
C15_ReplacedThenClosed ==
    /\ []C15_OneHandle
    /\ [][C15_SwapThenClose]_vars

\* session 2 is live and in use while the close of session 1 is awaited
C15_Witness ==
    /\ Open
    /\ session = 2
    /\ Unclosed = {1, 2}
    /\ \E t \in Tasks : pc[t] = "closing_old" /\ target[t] = 1
    /\ \E t \in Tasks : pc[t] = "inflight" /\ target[t] = 2

\* the step begins a reset() call
ResetBegins ==
    /\ calls' = calls + 1
    /\ \/ returned'.call = "reset"
       \/ \E t \in Tasks : pc[t] = "idle" /\ call'[t] = "reset"

\* C16: a request that begins with the flag down and a session live is
\* delegated in that step to the session self._session holds, and the step
\* touches neither the lock nor its queue, the flag or the sessions; the
\* handle moves only in a step that found the flag up, that begins a
\* reset() or that ends a close(). So the requests begun while no reset is
\* armed all run on the same session.
C16_UnarmedRequestSkipsLock ==
    \A t \in Tasks :
      ( /\ pc[t] = "idle" /\ calls' = calls + 1
        /\ call'[t] = "request" \/ returned'.call = "request"
        /\ ~reset_requested
        /\ session # None )
      => /\ pc'[t] = "inflight"
         /\ target'[t] = session
         /\ returned' = NoReturn
         /\ UNCHANGED <<reset_requested, locked, waiters, session,
                        constructed, close_calls>>

C16_HandleMovesOnlyWhenArmed ==
    session' # session => (reset_requested \/ ResetBegins \/ CloseFinishes)

C16_UnarmedRequestsShareSession ==
    [][C16_UnarmedRequestSkipsLock /\ C16_HandleMovesOnlyWhenArmed]_vars

\* three requests that each began with session 2 live and the flag down are
\* in flight on session 2, the lock is free and nobody waits for it
C16_Witness ==
    /\ Open
    /\ ~reset_requested /\ ~locked /\ waiters = << >>
    /\ session = 2
    /\ \A t \in Tasks :
         /\ pc[t] = "inflight" /\ call[t] = "request"
         /\ target[t] = 2 /\ live_at_call[t] = 2

\* C17: when the close of every replaced session ends and the free lock
\* resumes its first waiter, every call that found a reset pending, queued
\* on the lock or holding it, eventually is past _maybe_reset: its request
\* is delegated or the call has ended. The lock is only ever held by a task
\* that awaits the close of the session it replaced, so it is released
\* when that close ends, also when it raises.
C17_LockHeldOnlyWhileClosing == locked => Reconstructing # {}

C17_ReconstructionTerminates ==
    /\ []C17_LockHeldOnlyWhileClosing
    /\ \A t \in Tasks :
         (pc[t] \in {"wait", "closing_old"}) ~> (pc[t] \in {"inflight", "idle"})

\* the close of a replaced session has just raised: the lock is free again
\* and the task queued behind the reconstruction can take it
C17_Witness ==
    /\ delivered = Raised("CloseError")
    /\ returned.call # "close"
    /\ ~locked
    /\ waiters # << >>
    /\ \E t \in Tasks : pc[t] = "wait"

\* C18: while a reconstruction awaits the close of the session it replaced,
\* no request delegated to that session is in flight.
C18_NoCloseUnderRequest ==
    \A t \in Reconstructing :
      \A u \in Tasks : pc[u] = "inflight" => target[u] # target[t]

\* C19: when close() has been called, every call has ended and no get, post
\* or reset() began after close() was called, the handle is None and a close
\* has been invoked on every session constructed.
C19_NoSessionLeaked ==
    ( /\ close_called
      /\ ~late_call
      /\ \A t \in Tasks : pc[t] = "idle" )
    => /\ session = None
       /\ \A s \in 1 .. constructed : close_calls[s] >= 1

====
